---- MODULE Spec2Model ----
(***************************************************************************)
(* Model of the probe lifecycle (crates/trippy-core/src/probe.rs) and of   *)
(* the ICMP channel (src/icmp/net.rs): IcmpChannel::send builds an Echo    *)
(* Request byte by byte and hands it to the transport, IcmpChannel::receive*)
(* decodes an inbound ICMP packet, Probe::complete folds a response into a *)
(* probe slot.                                                             *)
(***************************************************************************)
EXTENDS Integers, Sequences, FiniteSets, TLC

VARIABLES
  buffer,          \* probe slot -> ProbeStatus
  sendCall,        \* arguments of the IcmpChannel::send call not yet recorded
  sendRes,         \* its result
  txops,           \* the operations that call made on the transport sender
  wire,            \* the last Echo Request that send_to put on the wire
  rxpkt,           \* the input IcmpChannel::receive last read
  recvRes,         \* its result
  lastFold,        \* arguments of the last Probe::complete call
  panicked         \* the thread has panicked: nothing runs any more

vars == <<buffer, sendCall, sendRes, txops, wire, rxpkt,
          recvRes, lastFold, panicked>>

(***************************************************************************)
(* Bounds of the model.                                                    *)
(***************************************************************************)
NumSlots == 1      \* probe slots of the round
MaxTime == 1       \* SystemTime values are 0..MaxTime

Slots == 1..NumSlots
Time == 0..MaxTime

(***************************************************************************)
(* Program constants.                                                      *)
(***************************************************************************)
MAX_PACKET_SIZE == 1024
Ipv4MinimumPacketSize == 20
EchoMinimumPacketSize == 8

MAX_ICMP_BUF_Small == MAX_PACKET_SIZE - Ipv4MinimumPacketSize - EchoMinimumPacketSize
MAX_ICMP_BUF == MAX_PACKET_SIZE - Ipv4MinimumPacketSize
MAX_PAYLOAD_BUF == MAX_ICMP_BUF - EchoMinimumPacketSize

IcmpEchoReply == 0
IcmpDestinationUnreachable == 3
IcmpRedirect == 5
IcmpEchoRequest == 8
IcmpTimeExceeded == 11

(***************************************************************************)
(* Results.                                                                *)
(***************************************************************************)
NoCall == [tag |-> "NoCall"]
Ok == [tag |-> "Ok"]
Panic(why) == [tag |-> "Panic", why |-> why]
Err(e) == [tag |-> "Err", err |-> e]
InvalidPacketSize(n) == [kind |-> "InvalidPacketSize", size |-> n]
PacketParseError == [kind |-> "PacketParseError"]
IoError == [kind |-> "IoError"]

(***************************************************************************)
(* Bytes.  A packet is a sequence of bytes 0..255; 16 bit fields are big   *)
(* endian.                                                                 *)
(***************************************************************************)
U16Bytes(v) == <<v \div 256, v % 256>>
GetU16(b, off) == b[off + 1] * 256 + b[off + 2]
Zeros(n) == [i \in 1..n |-> 0]
Fill(n, v) == [i \in 1..n |-> v]

(* pnet::util::checksum(data, skipword): RFC 1071 one's complement sum of   *)
(* the big endian 16 bit words of data, the word at index skipword left out.*)
Word(data, i, skipword) ==
  IF i = skipword THEN 0
  ELSE data[2 * i + 1] * 256 + (IF 2 * i + 2 <= Len(data) THEN data[2 * i + 2] ELSE 0)

(* the sum of the words lo..hi, added up by halves to keep the evaluation shallow *)
RECURSIVE SumWords(_, _, _, _)
SumWords(data, lo, hi, skipword) ==
  IF lo > hi THEN 0
  ELSE IF lo = hi THEN Word(data, lo, skipword)
  ELSE LET mid == (lo + hi) \div 2
       IN SumWords(data, lo, mid, skipword) + SumWords(data, mid + 1, hi, skipword)

RECURSIVE FoldCarry(_)
FoldCarry(s) == IF s < 65536 THEN s ELSE FoldCarry((s % 65536) + (s \div 65536))

checksum(data, skipword) ==
  65535 - FoldCarry(SumWords(data, 0, ((Len(data) + 1) \div 2) - 1, skipword))

(***************************************************************************)
(* usize arithmetic.  A usize is 64 (or 32) bits wide, beyond the integers *)
(* TLC evaluates, so a wrapped difference a - b with a < b is kept as the  *)
(* negative number a - b and stands for 2^w + (a - b): it is larger than   *)
(* every buffer length of the program.                                     *)
(***************************************************************************)
UsizeSub(a, b) == a - b
Wrapped(v) == v < 0
UsizeGt(v, n) == Wrapped(v) \/ v > n

(***************************************************************************)
(* Probe::new                                                              *)
(***************************************************************************)
ProbeNew(sequence, identifier, src_port, dest_port, ttl, round, sent, flags) ==
  [sequence |-> sequence, identifier |-> identifier, src_port |-> src_port,
   dest_port |-> dest_port, ttl |-> ttl, round |-> round, sent |-> sent,
   flags |-> flags]

(***************************************************************************)
(* Fixed parameters of the tracing session and the input sets the actions  *)
(* draw from.                                                              *)
(***************************************************************************)
TraceIds == {4660}           \* 0x1234
SrcPorts == {33434}
DestPorts == {33500}
Rounds == {0}
FlagSets == {"IcmpClassic"}
Target == "10.0.0.5"
Router == "192.0.2.1"
PacketSizes == {0, 10, 20, 27, 28, 1024, 1025, 2000, 65535}
PayloadValues == {171}

SeqOf(slot) == 33000 + slot
TtlOf(slot) == slot

(***************************************************************************)
(* crate::icmp::util::Required::req turns an absent packet view (the       *)
(* buffer is shorter than the packet's minimum size) into an error.        *)
(***************************************************************************)
ReqErr == Err(PacketParseError)

(***************************************************************************)
(* IcmpChannel::send                                                       *)
(***************************************************************************)
SetTtl(ttl, ok) == [op |-> "set_ttl", ttl |-> ttl, ok |-> ok]
SendTo(packet, ip, ok) == [op |-> "send_to", packet |-> packet, ip |-> ip, ok |-> ok]

(* lines 64-70: the Echo Request written into icmp_buf[0..icmp_buf_size],  *)
(* a zeroed buffer: type, code, identifier, payload, sequence number and   *)
(* last the checksum over the packet.                                      *)
EchoRequestBytes(id, sequence, payload, icmp_buf_size) ==
  LET header(ck) == <<IcmpEchoRequest, 0>> \o U16Bytes(ck) \o U16Bytes(id)
                      \o U16Bytes(sequence)
      rest == payload \o Zeros(icmp_buf_size - EchoMinimumPacketSize - Len(payload))
      ck == checksum(header(0) \o rest, 1)
  IN header(ck) \o rest

(* lines 71-73: set the TTL, then send. *)
Transmit_SendFirst(packet, ttl, ip, ttl_ok, send_ok) ==
  IF ~send_ok
  THEN [res |-> Err(IoError), ops |-> <<SendTo(packet, ip, FALSE)>>]
  ELSE IF ~ttl_ok
  THEN [res |-> Err(IoError), ops |-> <<SendTo(packet, ip, TRUE), SetTtl(ttl, FALSE)>>]
  ELSE [res |-> Ok, ops |-> <<SendTo(packet, ip, TRUE), SetTtl(ttl, TRUE)>>]

Transmit(packet, ttl, ip, ttl_ok, send_ok) ==
  IF ~ttl_ok
  THEN [res |-> Err(IoError), ops |-> <<SetTtl(ttl, FALSE)>>]
  ELSE IF ~send_ok
  THEN [res |-> Err(IoError), ops |-> <<SetTtl(ttl, TRUE), SendTo(packet, ip, FALSE)>>]
  ELSE [res |-> Ok, ops |-> <<SetTtl(ttl, TRUE), SendTo(packet, ip, TRUE)>>]

(* line 54: the size check. *)
TooLarge_Mtu(packet_size) == packet_size > 1500
TooLarge(packet_size) == packet_size > MAX_PACKET_SIZE

send(oc, probe, ip, id, packet_size, payload_value, ttl_ok, send_ok) ==
  IF TooLarge(packet_size)
  THEN [res |-> Err(InvalidPacketSize(packet_size)), ops |-> <<>>]
  ELSE
    LET ip_header_size == Ipv4MinimumPacketSize
        icmp_header_size == EchoMinimumPacketSize
        icmp_buf_size == UsizeSub(packet_size, ip_header_size)
        payload_size == UsizeSub(UsizeSub(packet_size, icmp_header_size), ip_header_size)
        payload_buf == Fill(MAX_PAYLOAD_BUF, payload_value)
    IN IF oc /\ Wrapped(icmp_buf_size)
       THEN [res |-> Panic("attempt to subtract with overflow"), ops |-> <<>>]
       ELSE IF oc /\ Wrapped(payload_size)
       THEN [res |-> Panic("attempt to subtract with overflow"), ops |-> <<>>]
       ELSE IF UsizeGt(icmp_buf_size, MAX_ICMP_BUF)
       THEN [res |-> Panic("range end index out of range"), ops |-> <<>>]
       ELSE IF icmp_buf_size < EchoMinimumPacketSize
       THEN [res |-> ReqErr, ops |-> <<>>]
       ELSE IF UsizeGt(payload_size, MAX_PAYLOAD_BUF)
       THEN [res |-> Panic("range end index out of range"), ops |-> <<>>]
       ELSE Transmit(EchoRequestBytes(id, probe.sequence,
                                      SubSeq(payload_buf, 1, payload_size),
                                      icmp_buf_size),
                     probe.ttl, ip, ttl_ok, send_ok)

(***************************************************************************)
(* extract_echo_request: the Echo Request nested in the body of an ICMP    *)
(* error.  Ipv4Packet::new wants the 20 byte minimum header, the nested    *)
(* header length is the low nibble of the first byte times 4, and          *)
(* &payload[header_len..] panics when header_len exceeds the payload.      *)
(***************************************************************************)
extract_echo_request_FixedOffset(payload) ==
  IF Len(payload) < Ipv4MinimumPacketSize THEN ReqErr
  ELSE LET nested_icmp == SubSeq(payload, Ipv4MinimumPacketSize + 1, Len(payload))
       IN IF Len(nested_icmp) < EchoMinimumPacketSize THEN ReqErr
          ELSE [tag |-> "Ok", packet |-> nested_icmp]

extract_echo_request(payload) ==
  IF Len(payload) < Ipv4MinimumPacketSize THEN ReqErr
  ELSE LET header_len == (payload[1] % 16) * 4
       IN IF header_len > Len(payload)
          THEN Panic("range start index out of range")
          ELSE LET nested_icmp == SubSeq(payload, header_len + 1, Len(payload))
               IN IF Len(nested_icmp) < EchoMinimumPacketSize THEN ReqErr
                  ELSE [tag |-> "Ok", packet |-> nested_icmp]

(***************************************************************************)
(* IcmpChannel::receive                                                    *)
(***************************************************************************)
IcmpResponseData(recv, addr, identifier, sequence) ==
  [recv |-> recv, addr |-> addr, identifier |-> identifier, sequence |-> sequence]

Some(variant, data) == [tag |-> "Some", variant |-> variant, data |-> data]
None == [tag |-> "None"]

(* the TimeExceeded and DestinationUnreachable arms: an 8 byte ICMP header *)
(* (type, code, checksum, 4 unused bytes), then the nested IP packet.      *)
ErrorArm(variant, icmp, ip, recv) ==
  IF Len(icmp) < 8 THEN ReqErr
  ELSE LET echo_request == extract_echo_request(SubSeq(icmp, 9, Len(icmp)))
       IN IF echo_request.tag # "Ok" THEN echo_request
          ELSE Some(variant,
                    IcmpResponseData(recv, ip,
                                     GetU16(echo_request.packet, 4),
                                     GetU16(echo_request.packet, 6)))

(* the EchoReply arm: identifier and sequence number of the packet itself. *)
ReplyArm_AsTimeExceeded(icmp, ip, recv) ==
  IF Len(icmp) < 8 THEN ReqErr
  ELSE Some("TimeExceeded", IcmpResponseData(recv, ip, GetU16(icmp, 4), GetU16(icmp, 6)))

ReplyArm(icmp, ip, recv) ==
  IF Len(icmp) < 8 THEN ReqErr
  ELSE Some("EchoReply", IcmpResponseData(recv, ip, GetU16(icmp, 4), GetU16(icmp, 6)))

receive(inp, recv) ==
  IF inp.kind = "ioerr" THEN Err(IoError)
  ELSE IF inp.kind = "timeout" THEN None
  ELSE LET icmp_type == inp.icmp[1]
       IN IF icmp_type = IcmpTimeExceeded
          THEN ErrorArm("TimeExceeded", inp.icmp, inp.ip, recv)
          ELSE IF icmp_type = IcmpDestinationUnreachable
          THEN ErrorArm("DestinationUnreachable", inp.icmp, inp.ip, recv)
          ELSE IF icmp_type = IcmpEchoReply
          THEN ReplyArm(inp.icmp, inp.ip, recv)
          ELSE None

(***************************************************************************)
(* Probe::complete                                                         *)
(***************************************************************************)
complete_SwapsPorts(self, host, received, icmp_packet_type, extensions) ==
  [sequence |-> self.sequence, identifier |-> self.identifier,
   src_port |-> self.dest_port, dest_port |-> self.src_port,
   ttl |-> self.ttl, round |-> self.round, sent |-> self.sent,
   host |-> host, received |-> received,
   icmp_packet_type |-> icmp_packet_type, extensions |-> extensions]

complete(self, host, received, icmp_packet_type, extensions) ==
  [sequence |-> self.sequence, identifier |-> self.identifier,
   src_port |-> self.src_port, dest_port |-> self.dest_port,
   ttl |-> self.ttl, round |-> self.round, sent |-> self.sent,
   host |-> host, received |-> received,
   icmp_packet_type |-> icmp_packet_type, extensions |-> extensions]

(***************************************************************************)
(* ProbeStatus                                                             *)
(***************************************************************************)
NotSent == [tag |-> "NotSent"]
Skipped == [tag |-> "Skipped"]
Awaited(probe) == [tag |-> "Awaited", probe |-> probe]
Complete(c) == [tag |-> "Complete", complete |-> c]
ProbeStatusDefault_Skipped == Skipped
ProbeStatusDefault == NotSent

(***************************************************************************)
(* What the receiver can read from the raw socket: a timeout, an I/O       *)
(* error, or an ICMP packet with its source address.  Packets are built    *)
(* from an Echo Request that is on the wire (or from another tracer's,     *)
(* ForeignEcho): the target reflects it as an Echo Reply, a router quotes  *)
(* the first n bytes of the original datagram (a nested IPv4 header of     *)
(* ihl * 4 bytes, then the Echo Request) in a Time Exceeded or Destination *)
(* Unreachable.  `form`, `whole` and `of` describe how the packet was made *)
(* and are not read by the decoder.                                        *)
(***************************************************************************)
NestedIHLs == {5, 6, 15}
OtherTypes == {IcmpRedirect, IcmpEchoRequest}
ErrorTypes == {IcmpTimeExceeded, IcmpDestinationUnreachable}

WithChecksum(pkt) ==
  LET ck == checksum(pkt, 1)
  IN <<pkt[1], pkt[2]>> \o U16Bytes(ck) \o SubSeq(pkt, 5, Len(pkt))

Ipv4Header(ihl, total_len) ==
  [i \in 1..(ihl * 4) |->
     IF i = 1 THEN 64 + ihl
     ELSE IF i \in 3..4 THEN U16Bytes(total_len)[i - 2]
     ELSE IF i = 9 THEN 1
     ELSE IF i = 10 THEN 1
     ELSE 0]

QuoteLens(ihl, echo_len) ==
  {19, 24, ihl * 4 + 8, ihl * 4 + (IF echo_len < 16 THEN echo_len ELSE 16)}

IcmpError(type, body) == WithChecksum(<<type, 0, 0, 0, 0, 0, 0, 0>> \o body)

ReplyOf(src) ==
  [kind |-> "packet", icmp |-> WithChecksum([src.packet EXCEPT ![1] = IcmpEchoReply]),
   ip |-> src.ip, form |-> "reply", whole |-> TRUE,
   of |-> [sequence |-> src.sequence, id |-> src.id]]

QuoteOf(src, type, ihl, n) ==
  LET datagram == Ipv4Header(ihl, ihl * 4 + Len(src.packet)) \o src.packet
  IN [kind |-> "packet", icmp |-> IcmpError(type, SubSeq(datagram, 1, n)),
      ip |-> Router, form |-> "quoted", whole |-> (n >= ihl * 4 + 8),
      of |-> [sequence |-> src.sequence, id |-> src.id]]

OtherOf(src, type) ==
  [kind |-> "packet", icmp |-> WithChecksum([SubSeq(src.packet, 1, 8) EXCEPT ![1] = type]),
   ip |-> Router, form |-> "other", whole |-> FALSE,
   of |-> [sequence |-> src.sequence, id |-> src.id]]

ShortOf(src, type) ==
  [kind |-> "packet", icmp |-> WithChecksum(<<type, 0, 0, 0>>),
   ip |-> Router, form |-> "short", whole |-> FALSE,
   of |-> [sequence |-> src.sequence, id |-> src.id]]

ForeignEcho ==
  [tag |-> "Packet", packet |-> EchoRequestBytes(17185, 7, <<>>, 8),
   ip |-> "198.51.100.1", sequence |-> 7, id |-> 17185]

NoPacket == [tag |-> "Empty"]
NoInput == [kind |-> "none"]

Inbound(w) ==
  {[kind |-> "timeout"], [kind |-> "ioerr"]}
  \cup {ReplyOf(ForeignEcho), QuoteOf(ForeignEcho, IcmpTimeExceeded, 5, 28)}
  \cup (IF w.tag # "Packet" THEN {}
        ELSE {ReplyOf(w)}
             \cup UNION {{QuoteOf(w, t, ihl, n) :
                            t \in ErrorTypes, n \in QuoteLens(ihl, Len(w.packet))} :
                          ihl \in NestedIHLs}
             \cup {OtherOf(w, t) : t \in OtherTypes}
             \cup {ShortOf(w, t) : t \in {IcmpTimeExceeded, IcmpEchoReply}})

(***************************************************************************)
(* State after construction.                                               *)
(***************************************************************************)
Init ==
  /\ buffer = [s \in Slots |-> ProbeStatusDefault]
  /\ sendCall = NoCall
  /\ sendRes = NoCall
  /\ txops = <<>>
  /\ wire = NoPacket
  /\ rxpkt = NoInput
  /\ recvRes = NoCall
  /\ lastFold = NoCall
  /\ panicked = FALSE

Idle == ~panicked /\ sendCall = NoCall /\ recvRes = NoCall

(***************************************************************************)
(* The scheduler builds the probe of the next free slot (Probe::new) and   *)
(* sends it: IcmpChannel::send with the trace identifier as the Echo       *)
(* identifier.  overflow_checks is the build profile: with it an           *)
(* arithmetic overflow panics (debug), without it the value wraps.         *)
(***************************************************************************)
Send(slot, probe, packet_size, payload_value, overflow_checks, ttl_ok, send_ok) ==
  /\ Idle
  /\ buffer[slot] = NotSent
  /\ \A earlier \in 1..(slot - 1) : buffer[earlier] # NotSent
  /\ LET r == send(overflow_checks, probe, Target, probe.identifier,
                   packet_size, payload_value, ttl_ok, send_ok)
         sent_ops == {i \in 1..Len(r.ops) : r.ops[i].op = "send_to" /\ r.ops[i].ok}
     IN /\ sendCall' = [tag |-> "Call", slot |-> slot, probe |-> probe, ip |-> Target,
                        id |-> probe.identifier, packet_size |-> packet_size,
                        payload_value |-> payload_value,
                        overflow_checks |-> overflow_checks,
                        ttl_ok |-> ttl_ok, send_ok |-> send_ok]
        /\ sendRes' = r.res
        /\ txops' = r.ops
        /\ wire' = IF sent_ops = {} THEN wire
                   ELSE LET o == r.ops[CHOOSE i \in sent_ops : TRUE]
                        IN [tag |-> "Packet", packet |-> o.packet, ip |-> o.ip,
                            sequence |-> probe.sequence, id |-> probe.identifier]
        /\ panicked' = (r.res.tag = "Panic")
  /\ UNCHANGED <<buffer, rxpkt, recvRes, lastFold>>

(* The caller records the outcome in the slot: Awaited when the send       *)
(* succeeded, Skipped when it returned an error.                           *)
RecordSend ==
  /\ ~panicked
  /\ sendCall # NoCall
  /\ buffer' = [buffer EXCEPT ![sendCall.slot] =
                   IF sendRes = Ok THEN Awaited(sendCall.probe) ELSE Skipped]
  /\ sendCall' = NoCall
  /\ sendRes' = NoCall
  /\ txops' = <<>>
  /\ UNCHANGED <<wire, rxpkt, recvRes, lastFold, panicked>>

(***************************************************************************)
(* IcmpChannel::receive on the next input; recv is SystemTime::now(), the  *)
(* wall clock, which is not monotonic.                                     *)
(***************************************************************************)
Receive(inp, recv) ==
  /\ Idle
  /\ LET r == receive(inp, recv)
     IN /\ rxpkt' = inp
        /\ recvRes' = r
        /\ panicked' = (r.tag = "Panic")
  /\ UNCHANGED <<buffer, sendCall, sendRes, txops, wire, lastFold>>

(***************************************************************************)
(* The correlator: a response whose identifier and sequence both match an  *)
(* awaited probe completes it; anything else is dropped.                   *)
(***************************************************************************)
MplsExtension == <<[label |-> 100, exp |-> 0, bos |-> 1, ttl |-> 64]>>
ExtensionsOf(variant) ==
  IF variant = "TimeExceeded" THEN [tag |-> "Some", extensions |-> MplsExtension]
  ELSE None

IcmpPacketTypeOf(variant, code) ==
  [type |-> IF variant = "DestinationUnreachable" THEN "Unreachable" ELSE variant,
   code |-> code]

Matches(slot) ==
  /\ recvRes.tag = "Some"
  /\ buffer[slot].tag = "Awaited"
  /\ recvRes.data.identifier = buffer[slot].probe.identifier
  /\ recvRes.data.sequence = buffer[slot].probe.sequence

FoldResponse(slot) ==
  /\ ~panicked
  /\ Matches(slot)
  /\ LET probe == buffer[slot].probe
         extensions == ExtensionsOf(recvRes.variant)
         host == recvRes.data.addr
         received == recvRes.data.recv
         icmp_packet_type == IcmpPacketTypeOf(recvRes.variant, rxpkt.icmp[2])
     IN /\ buffer' = [buffer EXCEPT ![slot] =
                        Complete(complete(probe, host, received, icmp_packet_type, extensions))]
        /\ lastFold' = [tag |-> "Fold", slot |-> slot, probe |-> probe, host |-> host,
                        received |-> received, icmp_packet_type |-> icmp_packet_type,
                        extensions |-> extensions]
  /\ rxpkt' = NoInput
  /\ recvRes' = NoCall
  /\ UNCHANGED <<sendCall, sendRes, txops, wire, panicked>>

DropResponse ==
  /\ ~panicked
  /\ recvRes # NoCall
  /\ \A slot \in Slots : ~Matches(slot)
  /\ rxpkt' = NoInput
  /\ recvRes' = NoCall
  /\ UNCHANGED <<buffer, sendCall, sendRes, txops, wire, lastFold, panicked>>

Probes(slot) ==
  {ProbeNew(SeqOf(slot), identifier, src_port, dest_port, TtlOf(slot), round, sent, flags) :
     identifier \in TraceIds, src_port \in SrcPorts, dest_port \in DestPorts,
     round \in Rounds, sent \in Time, flags \in FlagSets}

SendProbe ==
  /\ Idle
  /\ \E slot \in Slots, packet_size \in PacketSizes, payload_value \in PayloadValues,
        overflow_checks \in BOOLEAN, ttl_ok \in BOOLEAN, send_ok \in BOOLEAN :
       \E probe \in Probes(slot) :
         Send(slot, probe, packet_size, payload_value, overflow_checks, ttl_ok, send_ok)

ReceiveNext ==
  /\ Idle
  /\ \E inp \in Inbound(wire), recv \in Time : Receive(inp, recv)

Correlate ==
  /\ recvRes.tag = "Some"
  /\ \E slot \in Slots : FoldResponse(slot)

Next ==
  \/ SendProbe
  \/ RecordSend
  \/ ReceiveNext
  \/ Correlate
  \/ DropResponse

Spec == Init /\ [][Next]_vars

(***************************************************************************)
(* Properties.                                                             *)
(***************************************************************************)
SendDone == sendCall.tag = "Call"
RecvDone == recvRes # NoCall
RecvErrorPacket ==
  /\ RecvDone
  /\ rxpkt.kind = "packet"
  /\ rxpkt.icmp[1] \in {IcmpTimeExceeded, IcmpDestinationUnreachable}
  /\ Len(rxpkt.icmp) >= 8

(* C1: a TimeExceeded or DestinationUnreachable body handed to             *)
(* extract_echo_request never makes the decoder panic, and a body shorter  *)
(* than 20 bytes or shorter than the nested header length (IHL * 4) gives  *)
(* a parse error.                                                          *)
C1_TruncatedNestedIsParseError ==
  RecvErrorPacket =>
    LET payload_len == Len(rxpkt.icmp) - 8
    IN /\ recvRes.tag # "Panic"
       /\ (payload_len < 20 \/ payload_len < (rxpkt.icmp[9] % 16) * 4)
            => recvRes = Err(PacketParseError)

(* C2: a send with packet_size above 1024 returns                          *)
(* InvalidPacketSize(packet_size) and performs no transport operation:     *)
(* neither set_ttl nor send_to.                                            *)
C2_OversizeRejected ==
  (SendDone /\ sendCall.packet_size > 1024) =>
    /\ sendRes = Err(InvalidPacketSize(sendCall.packet_size))
    /\ txops = <<>>

C2_Witness ==
  SendDone /\ sendCall.packet_size = 2000 /\ sendRes.tag = "Err" /\ wire = NoPacket

(* C3: with a working transport a send of packet_size 28 or 1024 succeeds  *)
(* (no slice leaves the 1004 and 996 byte buffers) and puts exactly one    *)
(* Echo Request of packet_size - 20 bytes on the wire, whose payload is    *)
(* packet_size - 28 bytes of payload_value.                                *)
C3_BoundarySizesSucceed ==
  (SendDone /\ sendCall.packet_size \in {28, 1024} /\ sendCall.ttl_ok /\ sendCall.send_ok) =>
    LET sends == {i \in 1..Len(txops) : txops[i].op = "send_to"}
    IN /\ sendRes = Ok
       /\ sendCall.packet_size - 20 <= 1004
       /\ sendCall.packet_size - 28 <= 996
       /\ Cardinality(sends) = 1
       /\ \A i \in sends :
            /\ txops[i].ok
            /\ Len(txops[i].packet) = sendCall.packet_size - 20
            /\ txops[i].packet[1] = 8
            /\ Len(SubSeq(txops[i].packet, 9, Len(txops[i].packet)))
                 = sendCall.packet_size - 28
            /\ \A j \in 9..Len(txops[i].packet) :
                 txops[i].packet[j] = sendCall.payload_value

C3_Witness ==
  /\ SendDone /\ sendCall.packet_size = 1024 /\ sendRes = Ok
  /\ wire.tag = "Packet" /\ Len(wire.packet) = 1004

(* C4: a probe slot starts NotSent and its status only ever moves          *)
(* NotSent -> Skipped, NotSent -> Awaited or Awaited -> Complete; a        *)
(* Skipped or Complete slot never changes again.                           *)
LegalTransition(a, b) ==
  \/ a = b
  \/ a.tag = "NotSent" /\ b.tag \in {"Skipped", "Awaited"}
  \/ a.tag = "Awaited" /\ b.tag = "Complete"

C5_ReceivedNotBeforeSent ==
  \A s \in Slots :
    buffer[s].tag = "Complete" => buffer[s].complete.received >= buffer[s].complete.sent

(* C6 as claimed: the ProbeComplete made by Probe::complete holds every    *)
(* field of the probe, flags included, unchanged, and host, received,      *)
(* icmp_packet_type and extensions as passed.                              *)
FoldedAsPassed ==
  LET c == buffer[lastFold.slot].complete
      p == lastFold.probe
  IN /\ buffer[lastFold.slot].tag = "Complete"
     /\ c.sequence = p.sequence
     /\ c.identifier = p.identifier
     /\ c.src_port = p.src_port
     /\ c.dest_port = p.dest_port
     /\ c.ttl = p.ttl
     /\ c.round = p.round
     /\ c.sent = p.sent
     /\ c.host = lastFold.host
     /\ c.received = lastFold.received
     /\ c.icmp_packet_type = lastFold.icmp_packet_type
     /\ c.extensions = lastFold.extensions

C6_CarriesAllProbeFields ==
  lastFold.tag = "Fold" =>
    /\ FoldedAsPassed
    /\ "flags" \in DOMAIN buffer[lastFold.slot].complete
    /\ buffer[lastFold.slot].complete.flags = lastFold.probe.flags

(* C6 amended: the ProbeComplete holds sequence, identifier, src_port,     *)
(* dest_port, ttl, round and sent of the probe unchanged and host,         *)
(* received, icmp_packet_type and extensions as passed; it has these       *)
(* eleven fields and no flags field.                                       *)
C6_CarriesProbeFieldsButFlags ==
  lastFold.tag = "Fold" =>
    /\ FoldedAsPassed
    /\ DOMAIN buffer[lastFold.slot].complete =
         {"sequence", "identifier", "src_port", "dest_port", "ttl", "round", "sent",
          "host", "received", "icmp_packet_type", "extensions"}

C6_Witness ==
  /\ lastFold.tag = "Fold"
  /\ lastFold.extensions.tag = "Some"
  /\ buffer[lastFold.slot].tag = "Complete"
  /\ buffer[lastFold.slot].complete.src_port # buffer[lastFold.slot].complete.dest_port

(* C7: an Echo Request emitted by send that comes back as an Echo Reply,   *)
(* or whole (nested header and at least the 8 byte Echo header) behind a   *)
(* nested IPv4 header of 20..60 bytes in a Time Exceeded or Destination    *)
(* Unreachable, decodes to the sequence and identifier it was sent with.   *)
C7_RoundTrip ==
  (RecvDone /\ rxpkt.kind = "packet" /\ rxpkt.form \in {"reply", "quoted"} /\ rxpkt.whole) =>
    /\ recvRes.tag = "Some"
    /\ recvRes.data.sequence = rxpkt.of.sequence
    /\ recvRes.data.identifier = rxpkt.of.id

C7_Witness ==
  /\ RecvDone /\ rxpkt.kind = "packet" /\ rxpkt.form = "quoted" /\ rxpkt.whole
  /\ rxpkt.icmp[9] % 16 = 15
  /\ wire.tag = "Packet" /\ rxpkt.of.sequence = wire.sequence
  /\ recvRes.tag = "Some"

(* C8: every send_to of a send call comes right after a successful         *)
(* set_ttl(probe.ttl) of the same call and goes to the target ip; a failed *)
(* set_ttl ends the call with an error and no send_to.                     *)
C8_TtlSetRightBeforeSendTo ==
  SendDone =>
    /\ \A i \in 1..Len(txops) :
         txops[i].op = "send_to" =>
           /\ i > 1
           /\ txops[i - 1] = SetTtl(sendCall.probe.ttl, TRUE)
           /\ txops[i].ip = sendCall.ip
    /\ (\E i \in 1..Len(txops) : txops[i].op = "set_ttl" /\ ~txops[i].ok) =>
         /\ sendRes.tag = "Err"
         /\ \A i \in 1..Len(txops) : txops[i].op # "send_to"

C8_Witness ==
  SendDone /\ Len(txops) = 2 /\ txops[2].op = "send_to" /\ txops[2].ok

(* C9: receive returns None on a timeout and on a packet of any ICMP type  *)
(* but TimeExceeded, DestinationUnreachable and EchoReply; a response has  *)
(* the variant of the packet's type and the packet's source address.       *)
VariantOfType(t) ==
  IF t = 11 THEN "TimeExceeded"
  ELSE IF t = 3 THEN "DestinationUnreachable"
  ELSE IF t = 0 THEN "EchoReply"
  ELSE "none"

C9_ReceiveFilter ==
  RecvDone =>
    /\ rxpkt.kind = "timeout" => recvRes = None
    /\ (rxpkt.kind = "packet" /\ rxpkt.icmp[1] \notin {11, 3, 0}) => recvRes = None
    /\ recvRes.tag = "Some" =>
         /\ rxpkt.kind = "packet"
         /\ rxpkt.icmp[1] \in {11, 3, 0}
         /\ recvRes.variant = VariantOfType(rxpkt.icmp[1])
         /\ recvRes.data.addr = rxpkt.ip

C9_Witness ==
  /\ RecvDone /\ rxpkt.kind = "packet" /\ rxpkt.icmp[1] = 5 /\ recvRes = None

(* C10: a send whose packet_size passes the size check never underflows:   *)
(* it does not panic, and a packet_size below 28 ends in an error.         *)
C10_NoUnderflow ==
  (SendDone /\ sendCall.packet_size <= 1024) =>
    /\ sendRes.tag # "Panic"
    /\ sendCall.packet_size < 28 => sendRes.tag = "Err"

====
